---- MODULE Spec2Model ----
(***************************************************************************)
(* Model of pyca/ingest.py: the upload (ingest) service of the capture     *)
(* agent.  get_config_params is a pure function on text; ingest,           *)
(* safe_start_ingest and control_loop form one sequential process whose    *)
(* position is pc.  Text is modelled as a sequence of tokens: one token    *)
(* per character, except that the literal strings the code tests for are   *)
(* single tokens.                                                          *)
(***************************************************************************)
EXTENDS Integers, Sequences, FiniteSets, TLC

(***************************************************************************)
(* Bounds of the model                                                     *)
(***************************************************************************)
\* longest agent-properties text enumerated by SpecParser (in tokens)
MaxTextLen == 6
\* number of recorded events in the database
NumEvents == 2
\* number of ingest endpoints the service registry may report
NumEndpoints == 2
\* most attachments and tracks of the event of SpecIngest
MaxAttach == 2
MaxTracks == 2
\* most attachments and tracks of an event in the database of Spec
LoopAttach == 1
LoopTracks == 1
\* largest configured delay bound (seconds)
MaxDelay == 1
\* the upload attempts of one event are counted up to this
MaxAttempts == 2

(***************************************************************************)
(* Text tokens                                                             *)
(***************************************************************************)
\* 'org.opencastproject.workflow.config' (line 34)
CfgPrefix == "org.opencastproject.workflow.config"
\* 'org.opencastproject.workflow.definition' (line 38)
DefPrefix == "org.opencastproject.workflow.definition"
\* 'org.opencastproject.capture.agent.properties' (line 82)
prop == "org.opencastproject.capture.agent.properties"
\* 'http://www.opencastproject.org/xsd/1.0/dublincore/' (line 83)
dcns == "http://www.opencastproject.org/xsd/1.0/dublincore/"
NL == "\n"
EQ == "="
DOT == "."

\* the part of a token after its last '.', for the tokens that contain one
TailOf(t) ==
    CASE t = CfgPrefix -> "config"
      [] t = DefPrefix -> "definition"
      [] t = prop -> "properties"
      [] t = dcns -> "0/dublincore/"
      [] OTHER -> t

HasDot(t) == t \in {DOT, CfgPrefix, DefPrefix, prop, dcns}

\* index of the first occurrence of token c in s, 0 if there is none
FirstIndex(s, c) ==
    IF \E i \in 1..Len(s) : s[i] = c
    THEN CHOOSE i \in 1..Len(s) : s[i] = c /\ \A j \in 1..(i - 1) : s[j] # c
    ELSE 0

\* str.split(sep): all the pieces between occurrences of sep
Split(s, sep) ==
    LET seps == {i \in 1..Len(s) : s[i] = sep}
        n == Cardinality(seps)
        \* the k-th occurrence of sep; 0 and Len(s) + 1 stand for the two ends
        at(k) == IF k = 0 THEN 0
                 ELSE IF k = n + 1 THEN Len(s) + 1
                 ELSE CHOOSE i \in seps : Cardinality({j \in seps : j < i}) = k - 1
    IN  [k \in 1..(n + 1) |-> SubSeq(s, at(k - 1) + 1, at(k) - 1)]

\* str.split(sep, 1): at most one split, at the first occurrence of sep
Split1(s, sep) ==
    LET i == FirstIndex(s, sep) IN
    IF i = 0 THEN <<s>>
    ELSE <<SubSeq(s, 1, i - 1), SubSeq(s, i + 1, Len(s))>>

\* key.split('.')[-1]: what follows the last '.' of the key
LastSegment(key) ==
    IF \E i \in 1..Len(key) : HasDot(key[i])
    THEN LET i == CHOOSE k \in 1..Len(key) :
                      HasDot(key[k]) /\ \A j \in (k + 1)..Len(key) : ~HasDot(key[j])
         IN  IF key[i] = DOT THEN SubSeq(key, i + 1, Len(key))
             ELSE <<TailOf(key[i])>> \o SubSeq(key, i + 1, Len(key))
    ELSE key

\* str.startswith(prefix) for a prefix that is one token
StartsWith(s, prefix) == Len(s) >= 1 /\ s[1] = prefix

\* mutant: the first workflow-definition line wins instead of the last
ParseLine_FirstDef(acc, p) ==
    IF acc.raised THEN acc
    ELSE IF StartsWith(p, CfgPrefix)
    THEN LET kv == Split1(p, EQ) IN
         IF Len(kv) # 2 THEN [acc EXCEPT !.raised = TRUE]
         ELSE [acc EXCEPT !.param = Append(@, <<LastSegment(kv[1]), kv[2]>>)]
    ELSE IF StartsWith(p, DefPrefix)
    THEN LET pieces == Split1(p, EQ) IN
         IF acc.wdef = <<>> THEN [acc EXCEPT !.wdef = pieces[Len(pieces)]]
         ELSE acc
    ELSE acc

\* one pass of the loop body of get_config_params over line p, from the
\* accumulated result acc; the unpacking 'key, val = ...' raises ValueError
\* when the split yields one piece
ParseLine(acc, p) ==
    IF acc.raised THEN acc
    ELSE IF StartsWith(p, CfgPrefix)
    THEN LET kv == Split1(p, EQ) IN
         IF Len(kv) # 2 THEN [acc EXCEPT !.raised = TRUE]
         ELSE [acc EXCEPT !.param = Append(@, <<LastSegment(kv[1]), kv[2]>>)]
    ELSE IF StartsWith(p, DefPrefix)
    THEN LET pieces == Split1(p, EQ) IN
         [acc EXCEPT !.wdef = pieces[Len(pieces)]]
    ELSE acc

\* the loop of lines 33-39 from line k on
RECURSIVE ParseLines(_, _, _)
ParseLines(acc, lines, k) ==
    IF k > Len(lines) THEN acc
    ELSE ParseLines(ParseLine(acc, lines[k]), lines, k + 1)

\* get_config_params(properties): (wdef, param), or raised
get_config_params(properties) ==
    CHOOSE r \in {ParseLines([raised |-> FALSE, wdef |-> <<>>, param |-> <<>>],
                             lines, 1) : lines \in {Split(properties, NL)}} : TRUE

\* str.encode('ascii', 'ignore'): the non-ASCII characters are dropped
NonAscii == "\\u00e9"
EncodeAsciiIgnore(s) == SelectSeq(s, LAMBDA t : t # NonAscii)

\* name.rsplit('.', 1)[0]: the name without its last '.'-suffix
RSplitHead(name) ==
    IF \E i \in 1..Len(name) : name[i] = DOT
    THEN LET i == CHOOSE k \in 1..Len(name) :
                      name[k] = DOT /\ \A j \in (k + 1)..Len(name) : name[j] # DOT
         IN  SubSeq(name, 1, i - 1)
    ELSE name

\* 'dcns in data'
Contains(data, marker) == \E i \in 1..Len(data) : data[i] = marker

(***************************************************************************)
(* The data the program works on                                           *)
(***************************************************************************)
EventIds == 1..NumEvents
Endpoints == 1..NumEndpoints

\* pyca.db.Status, the values this file reads and writes
FINISHED_RECORDING == "FINISHED_RECORDING"
UPLOADING == "UPLOADING"
FINISHED_UPLOADING == "FINISHED_UPLOADING"
FAILED_UPLOADING == "FAILED_UPLOADING"
\* pyca.db.ServiceStatus
BUSY == "BUSY"
IDLE == "IDLE"
STOPPED == "STOPPED"

\* attachments of a schedule entry: x-apple-filename, fmttype, data
PropsAttachment ==
    [name |-> <<prop>>, fmttype |-> "application/text",
     data |-> <<DefPrefix, EQ, "fast", NL, CfgPrefix, DOT, "foo", EQ, "bar">>]
\* agent properties without a definition line, stored as an XML attachment
\* that carries the Dublin Core marker
PropsXmlAttachment ==
    [name |-> <<prop>>, fmttype |-> "application/xml",
     data |-> <<dcns, NL, CfgPrefix, DOT, "foo", EQ, "bar">>]
\* agent properties with a configuration line that has no '='
PropsMalformedAttachment ==
    [name |-> <<prop>>, fmttype |-> "application/text",
     data |-> <<DefPrefix, EQ, "fast", NL, CfgPrefix, DOT, "foo">>]
EpisodeAttachment ==
    [name |-> <<"episode", DOT, "xml">>, fmttype |-> "application/xml",
     data |-> <<dcns, "episode">>]
SeriesAttachment ==
    [name |-> <<"series", DOT, "xml">>, fmttype |-> "application/xml",
     data |-> <<dcns, "series">>]
\* XML without the Dublin Core marker
PlainXmlAttachment ==
    [name |-> <<"acl", DOT, "xml">>, fmttype |-> "application/xml",
     data |-> <<"acl">>]
\* the Dublin Core marker in something that is not XML
TextAttachment ==
    [name |-> <<"notes", DOT, "txt">>, fmttype |-> "text/plain",
     data |-> <<dcns, "notes">>]

Attachments ==
    {PropsAttachment, PropsXmlAttachment, PropsMalformedAttachment,
     EpisodeAttachment, SeriesAttachment, PlainXmlAttachment, TextAttachment}

SeqsUpTo(S, n) == UNION {[1..k -> S] : k \in 0..n}

\* event.get_tracks(): (flavor, path) pairs
Track(i) ==
    [flavor |-> <<"presenter/source", ToString(i)>>,
     path |-> <<"track", ToString(i), NonAscii>>]
TrackLists(n) == {[i \in 1..k |-> Track(i)] : k \in 0..n}

\* event.uid of event e: empty, plain, or with a non-ASCII character
Uids(e) == {<<>>, <<"uid", ToString(e)>>, <<"uid", ToString(e), NonAscii>>}

\* what the database can hold for event e, with at most n attachments and
\* t tracks
EventData(e, n, t) ==
    [id : {e}, uid : Uids(e), attach : SeqsUpTo(Attachments, n),
     tracks : TrackLists(t)]

NoEvent == [id |-> 0, uid |-> <<>>, attach |-> <<>>, tracks |-> <<>>]
NoWorkflow == [bound |-> FALSE, def |-> <<>>, config |-> <<>>]


(***************************************************************************)
(* State                                                                   *)
(***************************************************************************)
VARIABLES
    pc,                 \* position of the process in control_loop / ingest
    terminated,         \* what terminate() returns
    delay_min, delay_max, upload_catalogs, delete_after_upload,  \* config(...)
    autoingesting_mode, \* local of control_loop
    status,             \* RecordedEvent.status of every event
    directory,          \* whether event.directory() exists on disk
    service_status,     \* ServiceStatus of Service.INGEST
    notify_status,      \* the last STATUS= text given to the notifier
    notified,           \* the last message given to the notifier
    session,            \* whether the database session of the loop is open
    event,              \* the event the loop picked
    delay,              \* local of control_loop
    services,           \* the list service('ingest', force_update=True) returned
    service_url,        \* the endpoint picked from it
    mediapackage,       \* local of ingest: the current document
    workflow,           \* locals workflow_def, workflow_config (bound or not)
    att_i, trk_i,       \* positions of the two for loops of ingest
    calls,              \* the http_request calls of the current attempt
    raised,             \* the exception raised inside ingest, if any
    effects,            \* the side effects of the current attempt, in order
    attempts,           \* upload attempts started, per event
    accepted,           \* events whose /ingest request the server answered
    properties, parsed  \* input and result of get_config_params (SpecParser)

vars ==
    <<pc, terminated, delay_min, delay_max, upload_catalogs, delete_after_upload,
      autoingesting_mode, status, directory, service_status, notify_status,
      notified, session, event, delay, services, service_url, mediapackage,
      workflow, att_i, trk_i, calls, raised, effects, attempts, accepted,
      properties, parsed>>

configVars == <<delay_min, delay_max, upload_catalogs, delete_after_upload,
                autoingesting_mode>>
parserVars == <<properties, parsed>>
loopVars == <<terminated, notified, delay, attempts>>
attemptVars == <<services, service_url, mediapackage, workflow, att_i, trk_i,
                 calls, raised>>

\* a mediapackage document: which response it is, and its root id attribute
NoDoc == [serial |-> 0, id |-> <<>>]
Doc(n) == [serial |-> n, id |-> <<"mp", ToString(n)>>]

\* lines 74-79: the document with its root id attribute set to uid
ForceUid(doc, uid) == [doc EXCEPT !.id = uid]

\* the default of ingest's parameter, which safe_start_ingest does not pass
force_uid == FALSE

NoException == "none"

NoParse == [raised |-> FALSE, wdef |-> <<>>, param |-> <<>>]

\* mutant: equal delay bounds do not enable the automatic upload
AutoIngestingMode_Strict(dmin, dmax) == dmax > dmin

\* line 160
AutoIngestingMode(dmin, dmax) == dmax >= dmin

\* the state when control_loop reaches its while loop (lines 156-160)
Init ==
    /\ pc = "loop"
    /\ terminated = FALSE
    /\ delay_min \in 0..MaxDelay
    /\ delay_max \in 0..MaxDelay
    /\ upload_catalogs \in BOOLEAN
    /\ delete_after_upload \in BOOLEAN
    /\ autoingesting_mode = AutoIngestingMode(delay_min, delay_max)
    /\ status \in [EventIds -> {FINISHED_RECORDING, FAILED_UPLOADING}]
    /\ directory = [e \in EventIds |-> TRUE]
    /\ service_status = IDLE
    /\ notify_status = "Running"
    /\ notified = "STATUS=Running"
    /\ session = FALSE
    /\ event = NoEvent
    /\ delay = 0
    /\ services = {}
    /\ service_url = 0
    /\ mediapackage = NoDoc
    /\ workflow = NoWorkflow
    /\ att_i = 0
    /\ trk_i = 0
    /\ calls = <<>>
    /\ raised = NoException
    /\ effects = <<>>
    /\ attempts = [e \in EventIds |-> 0]
    /\ accepted = {}
    /\ properties = <<>>
    /\ parsed = NoParse


(***************************************************************************)
(* control_loop                                                            *)
(***************************************************************************)
\* the stop signal: terminate() returns True from now on
Terminate ==
    /\ ~terminated
    /\ terminated' = TRUE
    /\ UNCHANGED <<pc, configVars, status, directory, service_status,
                   notify_status, notified, session, event, delay, attemptVars,
                   effects, attempts, accepted, parserVars>>

\* mutant: the loop ends without the service being marked STOPPED
LoopExit_NoStopped ==
    /\ pc = "loop"
    /\ terminated
    /\ pc' = "done"
    /\ UNCHANGED <<configVars, loopVars, status, directory, service_status,
                   notify_status, session, event, attemptVars, effects,
                   accepted, parserVars>>

\* lines 161, 178-179: the loop condition fails
LoopExit ==
    /\ pc = "loop"
    /\ terminated
    /\ service_status' = STOPPED
    /\ pc' = "done"
    /\ UNCHANGED <<configVars, loopVars, status, directory, notify_status,
                   session, event, attemptVars, effects, accepted, parserVars>>

\* lines 161-163: the loop condition holds, the watchdog is notified
Heartbeat ==
    /\ pc = "loop"
    /\ ~terminated
    /\ notified' = "WATCHDOG=1"
    /\ pc' = IF autoingesting_mode THEN "query" ELSE "tick"
    /\ UNCHANGED <<configVars, terminated, delay, attempts, status, directory,
                   service_status, notify_status, session, event, attemptVars,
                   effects, accepted, parserVars>>

\* mutant: failed uploads are picked up again
Query_Retry ==
    /\ pc = "query"
    /\ session' = TRUE
    /\ IF \E e \in EventIds : status[e] \in {FINISHED_RECORDING, FAILED_UPLOADING}
       THEN \E e \in EventIds :
              /\ status[e] \in {FINISHED_RECORDING, FAILED_UPLOADING}
              /\ event' \in EventData(e, LoopAttach, LoopTracks)
              /\ delay' \in delay_min..delay_max
              /\ pc' = "sleep"
       ELSE /\ event' = NoEvent
            /\ pc' = "close"
            /\ UNCHANGED delay
    /\ UNCHANGED <<configVars, terminated, notified, attempts, status,
                   directory, service_status, notify_status, attemptVars,
                   effects, accepted, parserVars>>

\* mutant: the query looks at the first row of the table only
Query_FirstRow ==
    /\ pc = "query"
    /\ session' = TRUE
    /\ IF status[1] = FINISHED_RECORDING
       THEN /\ event' \in EventData(1, LoopAttach, LoopTracks)
            /\ delay' \in delay_min..delay_max
            /\ pc' = "sleep"
       ELSE /\ event' = NoEvent
            /\ pc' = "close"
            /\ UNCHANGED delay
    /\ UNCHANGED <<configVars, terminated, notified, attempts, status,
                   directory, service_status, notify_status, attemptVars,
                   effects, accepted, parserVars>>

\* lines 165-172: the first event with status FINISHED_RECORDING, if any
Query ==
    /\ pc = "query"
    /\ session' = TRUE
    /\ IF \E e \in EventIds : status[e] = FINISHED_RECORDING
       THEN \E e \in EventIds :
              /\ status[e] = FINISHED_RECORDING
              /\ event' \in EventData(e, LoopAttach, LoopTracks)
              /\ delay' \in delay_min..delay_max
              /\ pc' = "sleep"
       ELSE /\ event' = NoEvent
            /\ pc' = "close"
            /\ UNCHANGED delay
    /\ UNCHANGED <<configVars, terminated, notified, attempts, status,
                   directory, service_status, notify_status, attemptVars,
                   effects, accepted, parserVars>>

\* line 174
JitterSleep ==
    /\ pc = "sleep"
    /\ pc' = "ingest"
    /\ UNCHANGED <<configVars, loopVars, status, directory, service_status,
                   notify_status, session, event, attemptVars, effects,
                   accepted, parserVars>>

\* line 176; the locals of the finished call are gone
SessionClose ==
    /\ pc = "close"
    /\ session' = FALSE
    /\ pc' = "tick"
    /\ event' = NoEvent
    /\ services' = {}
    /\ service_url' = 0
    /\ mediapackage' = NoDoc
    /\ workflow' = NoWorkflow
    /\ att_i' = 0
    /\ trk_i' = 0
    /\ calls' = <<>>
    /\ raised' = NoException
    /\ effects' = <<>>
    /\ UNCHANGED <<configVars, loopVars, status, directory, service_status,
                   notify_status, accepted, parserVars>>

\* line 177
PollTick ==
    /\ pc = "tick"
    /\ pc' = "loop"
    /\ UNCHANGED <<configVars, loopVars, status, directory, service_status,
                   notify_status, session, event, attemptVars, effects,
                   accepted, parserVars>>


(***************************************************************************)
(* ingest and safe_start_ingest                                            *)
(***************************************************************************)
\* http_request(service_url + '/' + op, fields): the call as the server sees
\* it, and whether it returned; every response is a new document
Request(op, fields, ok) ==
    [op |-> op, url |-> service_url, fields |-> fields, ok |-> ok,
     resp |-> IF ok THEN Doc(Len(calls) + 1) ELSE NoDoc]

\* where ingest continues once attachment i and track t are the next ones
Continue(i, t) ==
    IF i <= Len(event.attach) THEN "attach"
    ELSE IF t <= Len(event.tracks) THEN "tracks"
    ELSE "submit"

\* lines 142-143, 52-55
IngestBegin ==
    /\ pc = "ingest"
    /\ service_status' = BUSY
    /\ notify_status' = "Uploading"
    /\ status' = [status EXCEPT ![event.id] = UPLOADING]
    /\ effects' = <<"service:BUSY", "notify:Uploading", "state:uploading",
                    "event:UPLOADING">>
    /\ attempts' = [attempts EXCEPT
                      ![event.id] = IF @ < MaxAttempts THEN @ + 1 ELSE @]
    /\ notified' = "STATUS=Uploading"
    /\ pc' = "service"
    /\ UNCHANGED <<configVars, terminated, delay, directory, session, event,
                   attemptVars, accepted, parserVars>>

\* line 61: the ingest services the registry knows now
LookupService ==
    /\ pc = "service"
    /\ services' \in SUBSET Endpoints
    /\ effects' = Append(effects, "service('ingest')")
    /\ pc' = "pick"
    /\ UNCHANGED <<configVars, loopVars, status, directory, service_status,
                   notify_status, session, event, service_url, mediapackage,
                   workflow, att_i, trk_i, calls, raised, accepted, parserVars>>

\* mutant: with no known endpoint the first endpoint is used as a default
PickService_Default ==
    /\ pc = "pick"
    /\ service_url' \in (IF services = {} THEN {1} ELSE services)
    /\ pc' = "create"
    /\ services' = {}
    /\ UNCHANGED <<configVars, loopVars, status, directory, service_status,
                   notify_status, session, event, mediapackage, workflow,
                   att_i, trk_i, calls, raised, effects, accepted, parserVars>>

\* lines 63-64: randrange(0, 0) raises ValueError; the list is overwritten
PickService ==
    /\ pc = "pick"
    /\ IF services = {}
       THEN /\ pc' = "except"
            /\ raised' = "ValueError"
            /\ UNCHANGED service_url
       ELSE /\ service_url' \in services
            /\ pc' = "create"
            /\ UNCHANGED raised
    /\ services' = {}
    /\ UNCHANGED <<configVars, loopVars, status, directory, service_status,
                   notify_status, session, event, mediapackage, workflow,
                   att_i, trk_i, calls, effects, accepted, parserVars>>

\* lines 66-79
CreateMediaPackage ==
    /\ pc = "create"
    /\ \E ok \in BOOLEAN :
         LET req == Request("createMediaPackage", <<>>, ok) IN
         /\ calls' = Append(calls, req)
         /\ IF ok
            THEN /\ mediapackage' = IF force_uid THEN ForceUid(req.resp, event.uid)
                                    ELSE req.resp
                 /\ att_i' = 1
                 /\ trk_i' = 1
                 /\ pc' = Continue(1, 1)
                 /\ UNCHANGED raised
            ELSE /\ pc' = "except"
                 /\ raised' = "pycurl.error"
                 /\ UNCHANGED <<mediapackage, att_i, trk_i>>
    /\ effects' = Append(effects, "http:createMediaPackage")
    /\ UNCHANGED <<configVars, loopVars, status, directory, service_status,
                   notify_status, session, event, services, service_url,
                   workflow, accepted, parserVars>>

\* mutant: catalogs are uploaded whatever upload_catalogs says
IsCatalog_NoFlag(attachment) ==
    /\ attachment.fmttype = "application/xml"
    /\ Contains(attachment.data, dcns)

\* lines 90-92: the attachment is uploaded as a Dublin Core catalog
IsCatalog(attachment) ==
    /\ attachment.fmttype = "application/xml"
    /\ Contains(attachment.data, dcns)
    /\ upload_catalogs

\* lines 95-97
CatalogFields(attachment) ==
    << <<"mediaPackage", mediapackage>>,
       <<"flavor", <<"dublincore/">> \o RSplitHead(attachment.name)>>,
       <<"dublinCore", attachment.data>> >>

\* lines 84-103: one pass of the attachment loop
AttachmentStep ==
    /\ pc = "attach"
    /\ LET attachment == event.attach[att_i] IN
       IF attachment.name = <<prop>>
       THEN \E r \in {get_config_params(attachment.data)} :
            /\ IF r.raised
               THEN /\ pc' = "except"
                    /\ raised' = "ValueError"
                    /\ UNCHANGED <<workflow, att_i>>
               ELSE /\ workflow' = [bound |-> TRUE, def |-> r.wdef,
                                    config |-> r.param]
                    /\ att_i' = att_i + 1
                    /\ pc' = Continue(att_i + 1, trk_i)
                    /\ UNCHANGED raised
            /\ UNCHANGED <<mediapackage, calls, effects>>
       ELSE IF IsCatalog(attachment)
       THEN \E ok \in BOOLEAN :
              LET req == Request("addDCCatalog", CatalogFields(attachment), ok) IN
              /\ calls' = Append(calls, req)
              /\ effects' = Append(effects, "http:addDCCatalog")
              /\ IF ok
                 THEN /\ mediapackage' = req.resp
                      /\ att_i' = att_i + 1
                      /\ pc' = Continue(att_i + 1, trk_i)
                      /\ UNCHANGED raised
                 ELSE /\ pc' = "except"
                      /\ raised' = "pycurl.error"
                      /\ UNCHANGED <<mediapackage, att_i>>
              /\ UNCHANGED workflow
       ELSE /\ att_i' = att_i + 1
            /\ pc' = Continue(att_i + 1, trk_i)
            /\ UNCHANGED <<mediapackage, workflow, calls, raised, effects>>
    /\ UNCHANGED <<configVars, loopVars, status, directory, service_status,
                   notify_status, session, event, services, service_url,
                   trk_i, accepted, parserVars>>

\* lines 108-110
TrackFields(track) ==
    << <<"mediaPackage", mediapackage>>,
       <<"flavor", track.flavor>>,
       <<"BODY1", EncodeAsciiIgnore(track.path)>> >>

\* mutant: a failed addTrack is skipped and the build goes on
TrackStep_SkipFailed ==
    /\ pc = "tracks"
    /\ \E ok \in BOOLEAN :
         LET req == Request("addTrack", TrackFields(event.tracks[trk_i]), ok) IN
         /\ calls' = Append(calls, req)
         /\ mediapackage' = IF ok THEN req.resp ELSE mediapackage
         /\ trk_i' = trk_i + 1
         /\ pc' = Continue(att_i, trk_i + 1)
         /\ UNCHANGED raised
    /\ effects' = Append(effects, "http:addTrack")
    /\ UNCHANGED <<configVars, loopVars, status, directory, service_status,
                   notify_status, session, event, services, service_url,
                   workflow, att_i, accepted, parserVars>>

\* lines 106-112: one pass of the track loop
TrackStep ==
    /\ pc = "tracks"
    /\ \E ok \in BOOLEAN :
         LET req == Request("addTrack", TrackFields(event.tracks[trk_i]), ok) IN
         /\ calls' = Append(calls, req)
         /\ IF ok
            THEN /\ mediapackage' = req.resp
                 /\ trk_i' = trk_i + 1
                 /\ pc' = Continue(att_i, trk_i + 1)
                 /\ UNCHANGED raised
            ELSE /\ pc' = "except"
                 /\ raised' = "pycurl.error"
                 /\ UNCHANGED <<mediapackage, trk_i>>
    /\ effects' = Append(effects, "http:addTrack")
    /\ UNCHANGED <<configVars, loopVars, status, directory, service_status,
                   notify_status, session, event, services, service_url,
                   workflow, att_i, accepted, parserVars>>

\* lines 116-122
IngestFields ==
    << <<"mediaPackage", mediapackage>> >>
    \o (IF workflow.def # <<>>
        THEN << <<"workflowDefinitionId", workflow.def>> >> ELSE <<>>)
    \o (IF event.uid # <<>>
        THEN << <<"workflowInstanceId", EncodeAsciiIgnore(event.uid)>> >>
        ELSE <<>>)
    \o workflow.config

\* lines 114-123: reading workflow_def raises UnboundLocalError when no
\* attachment assigned it
Submit ==
    /\ pc = "submit"
    /\ IF ~workflow.bound
       THEN /\ pc' = "except"
            /\ raised' = "UnboundLocalError"
            /\ UNCHANGED <<mediapackage, calls, effects, accepted>>
       ELSE \E ok \in BOOLEAN :
              LET req == Request("ingest", IngestFields, ok) IN
              /\ calls' = Append(calls, req)
              /\ effects' = Append(effects, "http:ingest")
              /\ IF ok
                 THEN /\ mediapackage' = req.resp
                      /\ accepted' = accepted \cup {event.id}
                      /\ pc' = "finished"
                      /\ UNCHANGED raised
                 ELSE /\ pc' = "except"
                      /\ raised' = "pycurl.error"
                      /\ UNCHANGED <<mediapackage, accepted>>
    /\ UNCHANGED <<configVars, loopVars, status, directory, service_status,
                   notify_status, session, event, services, service_url,
                   workflow, att_i, trk_i, parserVars>>

\* lines 126-127
PostUpload ==
    /\ pc = "finished"
    /\ effects' = effects \o <<"state:upload_finished", "event:FINISHED_UPLOADING">>
    /\ status' = [status EXCEPT ![event.id] = FINISHED_UPLOADING]
    /\ pc' = "cleanup"
    /\ UNCHANGED <<configVars, loopVars, directory, service_status,
                   notify_status, session, event, attemptVars, accepted,
                   parserVars>>

\* mutant: the directory is removed whatever delete_after_upload says
RemoveDirectory_Always ==
    /\ pc = "cleanup"
    /\ \E ok \in BOOLEAN :
         /\ effects' = Append(effects, "rmtree")
         /\ IF ok
            THEN /\ directory' = [directory EXCEPT ![event.id] = FALSE]
                 /\ pc' = "return"
                 /\ UNCHANGED raised
            ELSE /\ pc' = "except"
                 /\ raised' = "OSError"
                 /\ UNCHANGED directory
    /\ UNCHANGED <<configVars, loopVars, status, service_status, notify_status,
                   session, event, services, service_url, mediapackage,
                   workflow, att_i, trk_i, calls, accepted, parserVars>>

\* lines 128-131: shutil.rmtree removes the directory or raises
RemoveDirectory ==
    /\ pc = "cleanup"
    /\ IF delete_after_upload
       THEN \E ok \in BOOLEAN :
              /\ effects' = Append(effects, "rmtree")
              /\ IF ok
                 THEN /\ directory' = [directory EXCEPT ![event.id] = FALSE]
                      /\ pc' = "return"
                      /\ UNCHANGED raised
                 ELSE /\ pc' = "except"
                      /\ raised' = "OSError"
                      /\ UNCHANGED directory
       ELSE /\ pc' = "return"
            /\ UNCHANGED <<directory, effects, raised>>
    /\ UNCHANGED <<configVars, loopVars, status, service_status, notify_status,
                   session, event, services, service_url, mediapackage,
                   workflow, att_i, trk_i, calls, accepted, parserVars>>

\* lines 132-135
IngestReturn ==
    /\ pc = "return"
    /\ notify_status' = "Running"
    /\ service_status' = IDLE
    /\ effects' = effects \o <<"notify:Running", "service:IDLE">>
    /\ notified' = "STATUS=Running"
    /\ pc' = "close"
    /\ UNCHANGED <<configVars, terminated, delay, attempts, status, directory,
                   session, event, attemptVars, accepted, parserVars>>

\* mutant: only the errors of the HTTP client are caught, any other
\* exception leaves safe_start_ingest and ends control_loop
HandleError_HttpOnly ==
    /\ pc = "except"
    /\ IF raised = "pycurl.error"
       THEN /\ effects' = effects \o <<"state:upload_error",
                                       "event:FAILED_UPLOADING", "service:IDLE">>
            /\ status' = [status EXCEPT ![event.id] = FAILED_UPLOADING]
            /\ service_status' = IDLE
            /\ pc' = "close"
       ELSE /\ pc' = "crashed"
            /\ UNCHANGED <<effects, status, service_status>>
    /\ UNCHANGED <<configVars, loopVars, directory, notify_status, session,
                   event, attemptVars, accepted, parserVars>>

\* mutant: the except clause does not set the service status back
HandleError_StaysBusy ==
    /\ pc = "except"
    /\ effects' = effects \o <<"state:upload_error", "event:FAILED_UPLOADING">>
    /\ status' = [status EXCEPT ![event.id] = FAILED_UPLOADING]
    /\ pc' = "close"
    /\ UNCHANGED <<configVars, loopVars, directory, service_status,
                   notify_status, session, event, attemptVars, accepted,
                   parserVars>>

\* lines 144-149: the except clause of safe_start_ingest
HandleError ==
    /\ pc = "except"
    /\ effects' = effects \o <<"state:upload_error", "event:FAILED_UPLOADING",
                                "service:IDLE">>
    /\ status' = [status EXCEPT ![event.id] = FAILED_UPLOADING]
    /\ service_status' = IDLE
    /\ pc' = "close"
    /\ UNCHANGED <<configVars, loopVars, directory, notify_status, session,
                   event, attemptVars, accepted, parserVars>>

\* the steps of the process itself
Advance ==
    \/ LoopExit
    \/ Heartbeat
    \/ Query
    \/ JitterSleep
    \/ IngestBegin
    \/ LookupService
    \/ PickService
    \/ CreateMediaPackage
    \/ AttachmentStep
    \/ TrackStep
    \/ Submit
    \/ PostUpload
    \/ RemoveDirectory
    \/ IngestReturn
    \/ HandleError
    \/ SessionClose
    \/ PollTick

Next == Terminate \/ Advance

Spec == Init /\ [][Next]_vars

\* every sleep and every remote call returns: the process keeps taking steps
FairSpec == Spec /\ WF_vars(Advance)


(***************************************************************************)
(* SpecIngest: one call safe_start_ingest(event), as line 175 makes it,    *)
(* for an event with up to MaxAttach attachments and MaxTracks tracks      *)
(***************************************************************************)
InitIngest ==
    /\ pc = "ingest"
    /\ terminated = FALSE
    /\ delay_min = 0
    /\ delay_max = 0
    /\ upload_catalogs \in BOOLEAN
    /\ delete_after_upload \in BOOLEAN
    /\ autoingesting_mode = AutoIngestingMode(delay_min, delay_max)
    /\ status = [e \in EventIds |-> FINISHED_RECORDING]
    /\ directory = [e \in EventIds |-> TRUE]
    /\ service_status = IDLE
    /\ notify_status = "Running"
    /\ notified = "WATCHDOG=1"
    /\ session = TRUE
    /\ event \in EventData(1, MaxAttach, MaxTracks)
    /\ delay = 0
    /\ services = {}
    /\ service_url = 0
    /\ mediapackage = NoDoc
    /\ workflow = NoWorkflow
    /\ att_i = 0
    /\ trk_i = 0
    /\ calls = <<>>
    /\ raised = NoException
    /\ effects = <<>>
    /\ attempts = [e \in EventIds |-> 0]
    /\ accepted = {}
    /\ properties = <<>>
    /\ parsed = NoParse

NextIngest ==
    \/ IngestBegin
    \/ LookupService
    \/ PickService
    \/ CreateMediaPackage
    \/ AttachmentStep
    \/ TrackStep
    \/ Submit
    \/ PostUpload
    \/ RemoveDirectory
    \/ IngestReturn
    \/ HandleError

SpecIngest == InitIngest /\ [][NextIngest]_vars

(***************************************************************************)
(* SpecParser: get_config_params applied to every text of up to MaxTextLen *)
(* tokens                                                                  *)
(***************************************************************************)
TextTokens == {CfgPrefix, DefPrefix, DOT, EQ, NL, "k"}
Texts == SeqsUpTo(TextTokens, MaxTextLen)

InitParser ==
    /\ pc = "parse"
    /\ properties \in Texts
    /\ parsed = NoParse
    /\ terminated = FALSE
    /\ delay_min = 0
    /\ delay_max = 0
    /\ upload_catalogs = TRUE
    /\ delete_after_upload = TRUE
    /\ autoingesting_mode = AutoIngestingMode(delay_min, delay_max)
    /\ status = [e \in EventIds |-> FINISHED_RECORDING]
    /\ directory = [e \in EventIds |-> TRUE]
    /\ service_status = IDLE
    /\ notify_status = "Running"
    /\ notified = "STATUS=Running"
    /\ session = FALSE
    /\ event = NoEvent
    /\ delay = 0
    /\ services = {}
    /\ service_url = 0
    /\ mediapackage = NoDoc
    /\ workflow = NoWorkflow
    /\ att_i = 0
    /\ trk_i = 0
    /\ calls = <<>>
    /\ raised = NoException
    /\ effects = <<>>
    /\ attempts = [e \in EventIds |-> 0]
    /\ accepted = {}

\* lines 27-40: the call returns (wdef, param) or raises
ParseProperties ==
    /\ pc = "parse"
    /\ parsed' = get_config_params(properties)
    /\ pc' = IF parsed'.raised THEN "raised" ELSE "parsed"
    /\ UNCHANGED <<configVars, loopVars, status, directory, service_status,
                   notify_status, session, event, attemptVars, effects,
                   accepted, properties>>

NextParser == ParseProperties

SpecParser == InitParser /\ [][NextParser]_vars


(***************************************************************************)
(* Properties                                                              *)
(***************************************************************************)
\* the process is inside ingest or the except clause of safe_start_ingest
InAttempt ==
    pc \in {"service", "pick", "create", "attach", "tracks", "submit",
            "finished", "cleanup", "return", "except"}

\* safe_start_ingest has returned to the loop
AttemptEnded == pc = "close" /\ event # NoEvent

AllCallsOk == \A i \in 1..Len(calls) : calls[i].ok

HasProperties(ev) == \E i \in 1..Len(ev.attach) : ev.attach[i].name = <<prop>>

\* the attachments of ev that are uploaded as catalogs, in stored order
Qualifying(ev) ==
    SelectSeq(ev.attach, LAMBDA a : a.name # <<prop>> /\ IsCatalog(a))

\* the value of field key of a request, <<>> when the request has no such field
FieldValues(req, key) ==
    SelectSeq(req.fields, LAMBDA f : f[1] = key)

\* C1: an upload attempt in which an endpoint was selected and no remote
\* call failed has made exactly 1 createMediaPackage, then one addDCCatalog
\* per qualifying attachment in stored order, then one addTrack per track in
\* track order, then 1 ingest, and every call after the first sends the
\* response of the call before it as mediaPackage.
C1_CallSequence ==
    (AttemptEnded /\ calls # <<>> /\ AllCallsOk) =>
        LET q == Qualifying(event)
            M == Len(q)
            T == Len(event.tracks)
        IN  /\ Len(calls) = 1 + M + T + 1
            /\ calls[1].op = "createMediaPackage"
            /\ \A i \in 1..M :
                 /\ calls[1 + i].op = "addDCCatalog"
                 /\ FieldValues(calls[1 + i], "dublinCore") = << <<"dublinCore", q[i].data>> >>
            /\ \A j \in 1..T :
                 /\ calls[1 + M + j].op = "addTrack"
                 /\ FieldValues(calls[1 + M + j], "flavor")
                      = << <<"flavor", event.tracks[j].flavor>> >>
            /\ calls[Len(calls)].op = "ingest"
            /\ \A i \in 2..Len(calls) :
                 FieldValues(calls[i], "mediaPackage")
                   = << <<"mediaPackage", calls[i - 1].resp>> >>

\* C2: an upload attempt on an event without agent-properties attachment in
\* which an endpoint was selected and every remote call succeeded has made
\* the ingest call, without workflowDefinitionId and without configuration
\* fields, and has left the event in FINISHED_UPLOADING.
C2_NoPropertiesIsValid ==
    (AttemptEnded /\ ~HasProperties(event) /\ calls # <<>> /\ AllCallsOk) =>
        LET last == calls[Len(calls)] IN
        /\ last.op = "ingest"
        /\ FieldValues(last, "workflowDefinitionId") = <<>>
        /\ \A i \in 1..Len(last.fields) :
             last.fields[i][1] \in {"mediaPackage", "workflowInstanceId"}
        /\ status[event.id] = FINISHED_UPLOADING

\* C10: get_config_params returns for every text; it never raises.
C10_ParserNeverRaises == pc # "raised"


InEffects(x) == \E i \in 1..Len(effects) : effects[i] = x

\* C3: an exception raised inside the upload attempt never leaves
\* safe_start_ingest: when the attempt has ended the event is in
\* FAILED_UPLOADING, 'upload_error' was emitted and the service is IDLE, and
\* the loop ends only when terminate() says so.
C3_FailureAbsorbed ==
    /\ raised # NoException => pc \in {"except", "close"}
    /\ (AttemptEnded /\ raised # NoException) =>
          /\ status[event.id] = FAILED_UPLOADING
          /\ InEffects("state:upload_error")
          /\ service_status = IDLE
    /\ pc \in {"loop", "query", "sleep", "ingest", "close", "tick", "done"}
         \/ InAttempt
    /\ pc = "done" => terminated

\* an attempt in which addTrack failed has ended
C3_Witness ==
    /\ AttemptEnded
    /\ raised = "pycurl.error"
    /\ \E i \in 1..Len(calls) : calls[i].op = "addTrack" /\ ~calls[i].ok
    /\ status[event.id] = FAILED_UPLOADING

\* C4: a recording directory is gone only if the server answered the /ingest
\* request for its event and delete_after_upload is set; while and after an
\* attempt in which a remote call failed the directory of its event exists.
C4_DeleteOnlyAfterSubmit ==
    /\ \A e \in EventIds :
         ~directory[e] => (e \in accepted /\ delete_after_upload)
    /\ ((InAttempt \/ AttemptEnded) /\ ~AllCallsOk) => directory[event.id]
    /\ (InAttempt /\ event.id \notin accepted) => directory[event.id]

\* an attempt has removed the directory of its event
C4_Witness ==
    /\ AttemptEnded
    /\ ~directory[event.id]
    /\ status[event.id] = FINISHED_UPLOADING

\* C5: every change of an event's status is FINISHED_RECORDING -> UPLOADING,
\* UPLOADING -> FINISHED_UPLOADING or UPLOADING -> FAILED_UPLOADING.
C5_StatusTransitions ==
    [][\A e \in EventIds :
         status'[e] # status[e] =>
           <<status[e], status'[e]>> \in
              {<<FINISHED_RECORDING, UPLOADING>>,
               <<UPLOADING, FINISHED_UPLOADING>>,
               <<UPLOADING, FAILED_UPLOADING>>}]_vars

\* C6: the service status is BUSY exactly while the process is inside an
\* upload attempt, it is IDLE at every other position of the loop, and an
\* event is in UPLOADING only while it is the event of the running attempt.
C6_BusyIffAttempt ==
    /\ service_status = BUSY <=> InAttempt
    /\ pc \in {"loop", "query", "sleep", "ingest", "close", "tick"}
         => service_status = IDLE
    /\ \A e \in EventIds :
         status[e] = UPLOADING => (InAttempt /\ event.id = e)

\* a successful attempt has ended: the status went IDLE, BUSY, IDLE
C6_Witness ==
    /\ AttemptEnded
    /\ raised = NoException
    /\ status[event.id] = FINISHED_UPLOADING
    /\ InEffects("service:BUSY")
    /\ service_status = IDLE

\* C7: no event has more than one upload attempt, and the event the loop has
\* picked is in FINISHED_RECORDING and has had no attempt yet.
C7_OneAttemptPerEvent ==
    /\ \A e \in EventIds : attempts[e] <= 1
    /\ pc \in {"sleep", "ingest"} =>
         (status[event.id] = FINISHED_RECORDING /\ attempts[event.id] = 0)

\* a later pass of the loop finds nothing to upload although an event whose
\* attempt failed is in the database
C7_Witness ==
    /\ pc = "close"
    /\ event = NoEvent
    /\ \E e \in EventIds : attempts[e] = 1 /\ status[e] = FAILED_UPLOADING

\* C8: autoingesting_mode is delay_max >= delay_min; when it is false the
\* loop never opens a session, picks an event or starts an attempt; and
\* whenever the loop is past its watchdog notification, WATCHDOG=1 was sent.
C8_AutoIngestMode ==
    /\ autoingesting_mode <=> delay_max >= delay_min
    /\ delay_max < delay_min =>
          /\ pc \in {"loop", "tick", "done"}
          /\ event = NoEvent
          /\ ~session
          /\ \A e \in EventIds : attempts[e] = 0
    /\ (pc \in {"query", "sleep", "ingest"} \/ (pc = "tick" /\ ~autoingesting_mode))
          => notified = "WATCHDOG=1"

\* the loop runs with the automatic upload off while an event is eligible
C8_Witness ==
    /\ delay_max < delay_min
    /\ pc = "tick"
    /\ notified = "WATCHDOG=1"
    /\ \E e \in EventIds : status[e] = FINISHED_RECORDING

\* C9: once terminate() is true the loop eventually ends and the service is
\* STOPPED; it is STOPPED only after the loop, with no event in UPLOADING;
\* and from STOPPED the status never changes and no attempt starts.
C9_StopTerminates ==
    /\ terminated ~> (service_status = STOPPED)
    /\ [](service_status = STOPPED =>
            (pc = "done" /\ \A e \in EventIds : status[e] # UPLOADING))
    /\ [][service_status = STOPPED =>
            (service_status' = STOPPED /\ attempts' = attempts /\ pc' = pc)]_vars

\* the loop has ended after at least one upload attempt
C9_Witness ==
    /\ service_status = STOPPED
    /\ pc = "done"
    /\ \E e \in EventIds : attempts[e] = 1

\* C11: when service('ingest') returns no endpoint the selection raises
\* before any remote call: the attempt makes no call and ends with the
\* event in FAILED_UPLOADING and the service IDLE; when it returns some
\* endpoints the one selected is among them, and every call of the attempt
\* goes to the selected endpoint.
C11_EmptyEndpoints ==
    /\ [][(pc = "pick" /\ pc' # "pick") =>
            IF services = {}
            THEN pc' = "except" /\ raised' # NoException /\ calls' = <<>>
            ELSE pc' = "create" /\ service_url' \in services]_vars
    /\ []((InAttempt /\ service_url = 0) => calls = <<>>)
    /\ []((AttemptEnded /\ service_url = 0) =>
            /\ calls = <<>>
            /\ status[event.id] = FAILED_UPLOADING
            /\ service_status = IDLE)
    /\ [](\A i \in 1..Len(calls) :
            calls[i].url = service_url /\ service_url \in Endpoints)

\* an attempt that found no endpoint has ended
C11_Witness ==
    /\ AttemptEnded
    /\ service_url = 0
    /\ raised = "ValueError"
    /\ calls = <<>>
    /\ status[event.id] = FAILED_UPLOADING
    /\ service_status = IDLE

\* the lines of a text: the maximal runs of tokens other than the newline
LinesOf(text) ==
    LET ends == {i \in 1..(Len(text) + 1) : i = Len(text) + 1 \/ text[i] = NL}
        starts == {1} \cup {i + 1 : i \in {j \in 1..Len(text) : text[j] = NL}}
        startOf(k) == CHOOSE b \in starts : Cardinality({c \in starts : c < b}) = k - 1
        endOf(b) == CHOOSE x \in ends : x >= b /\ \A y \in ends : y >= b => x <= y
    IN  [k \in 1..Cardinality(starts) |->
            SubSeq(text, startOf(k), endOf(startOf(k)) - 1)]

IsConfigLine(l) == Len(l) >= 1 /\ l[1] = CfgPrefix
IsDefinitionLine(l) == Len(l) >= 1 /\ l[1] = DefPrefix
HasEq(l) == \E i \in 1..Len(l) : l[i] = EQ

\* every workflow-config and workflow-definition line has a '='
WellFormed(text) ==
    \A k \in 1..Len(LinesOf(text)) :
        LET l == LinesOf(text)[k] IN
        (IsConfigLine(l) \/ IsDefinitionLine(l)) => HasEq(l)

\* what precedes and what follows the first '=' of a line that has one
BeforeEq(l) == SubSeq(l, 1, (CHOOSE i \in 1..Len(l) :
                               l[i] = EQ /\ \A j \in 1..(i - 1) : l[j] # EQ) - 1)
AfterEq(l) == SubSeq(l, (CHOOSE i \in 1..Len(l) :
                            l[i] = EQ /\ \A j \in 1..(i - 1) : l[j] # EQ) + 1, Len(l))

\* the definition id the text asks for: the value of its last definition line
ExpectedDef(text) ==
    LET defs == SelectSeq(LinesOf(text), IsDefinitionLine) IN
    IF defs = <<>> THEN <<>> ELSE AfterEq(defs[Len(defs)])

\* the configuration pairs the text asks for, one per config line, in order
ExpectedParam(text) ==
    LET cfgs == SelectSeq(LinesOf(text), IsConfigLine) IN
    [k \in 1..Len(cfgs) |-> <<LastSegment(BeforeEq(cfgs[k])), AfterEq(cfgs[k])>>]

\* C12: for every text whose workflow lines all have a '=',
\* get_config_params returns the value of the last definition line (empty
\* when there is none) and one (leaf key, value) pair per config line, in
\* line order, duplicates kept, all other lines ignored.
C12_ParserResult ==
    (pc # "parse" /\ WellFormed(properties)) =>
        /\ pc = "parsed"
        /\ parsed.wdef = ExpectedDef(properties)
        /\ parsed.param = ExpectedParam(properties)

\* a text with two definition lines, the last of which has a value, parsed
C12_Witness ==
    /\ pc = "parsed"
    /\ WellFormed(properties)
    /\ Len(SelectSeq(LinesOf(properties), IsDefinitionLine)) = 2
    /\ parsed.wdef # <<>>

\* C13: the database session of the loop is not open while the process is
\* at the jitter sleep, at a remote call of the upload attempt (the service
\* lookup and the four mediapackage calls) or at the poll tick.
C13_SessionReleased ==
    ~(session /\ pc \in {"sleep", "service", "create", "attach", "tracks",
                          "submit", "tick"})

\* position of the first occurrence of side effect x in effects, 0 if none
Pos(x) == IF InEffects(x) THEN CHOOSE i \in 1..Len(effects) :
                                  effects[i] = x /\ \A j \in 1..(i - 1) : effects[j] # x
          ELSE 0

\* if both side effects have happened, x happened before y
Before(x, y) == (InEffects(x) /\ InEffects(y)) => Pos(x) < Pos(y)

\* side effect y has happened only after side effect x
Follows(y, x) == InEffects(y) => (InEffects(x) /\ Pos(x) < Pos(y))

\* C14: the side effects of an attempt come in the order service BUSY,
\* 'uploading' signal, event UPLOADING, endpoint selection, remote calls;
\* then on success event FINISHED_UPLOADING before the 'upload_finished'
\* signal, then the directory removal, then service IDLE; on failure event
\* FAILED_UPLOADING before the 'upload_error' signal, then service IDLE.
C14_EffectOrder ==
    /\ Follows("state:uploading", "service:BUSY")
    /\ Follows("event:UPLOADING", "state:uploading")
    /\ Follows("service('ingest')", "event:UPLOADING")
    /\ \A c \in {"http:createMediaPackage", "http:addDCCatalog",
                  "http:addTrack", "http:ingest"} :
          Follows(c, "service('ingest')")
    /\ Follows("event:FINISHED_UPLOADING", "http:ingest")
    /\ Follows("state:upload_finished", "event:FINISHED_UPLOADING")
    /\ Follows("rmtree", "state:upload_finished")
    /\ Follows("state:upload_error", "event:FAILED_UPLOADING")
    /\ Follows("service:IDLE", "service:BUSY")
    /\ InEffects("service:IDLE") => effects[Len(effects)] = "service:IDLE"

\* the addDCCatalog calls among the calls made so far
CatalogCalls(cs) == SelectSeq(cs, LAMBDA c : c.op = "addDCCatalog")

\* the attachment is not the agent properties, is XML, carries the Dublin
\* Core marker, and catalogs are to be uploaded
ShouldUpload(a) ==
    /\ a.name # <<prop>>
    /\ a.fmttype = "application/xml"
    /\ \E i \in 1..Len(a.data) : a.data[i] = dcns
    /\ upload_catalogs

\* C15: a pass of the attachment loop calls addDCCatalog exactly when the
\* attachment is not the agent properties, is application/xml, contains
\* the Dublin Core marker and upload_catalogs is set; the agent properties
\* never cause a call; any other attachment is skipped without error and
\* leaves the mediapackage unchanged; addDCCatalog is called nowhere else,
\* and never when upload_catalogs is off.
C15_CatalogUpload ==
    /\ [][(pc = "attach" /\ (pc' # pc \/ att_i' # att_i)) =>
            LET a == event.attach[att_i] IN
            IF ShouldUpload(a)
            THEN /\ Len(calls') = Len(calls) + 1
                 /\ calls'[Len(calls')].op = "addDCCatalog"
                 /\ calls'[Len(calls')].fields[3] = <<"dublinCore", a.data>>
            ELSE /\ calls' = calls
                 /\ mediapackage' = mediapackage
                 /\ a.name # <<prop>> =>
                       (raised' = NoException /\ att_i' = att_i + 1)]_vars
    /\ [][pc # "attach" => CatalogCalls(calls') = CatalogCalls(calls)
                              \/ calls' = <<>>]_vars
    /\ [](~upload_catalogs => CatalogCalls(calls) = <<>>)

\* an attempt on an event whose agent properties come as XML with the
\* Dublin Core marker, followed by a catalog, has uploaded the catalog only
C15_Witness ==
    /\ AttemptEnded
    /\ upload_catalogs
    /\ event.attach = <<PropsXmlAttachment, EpisodeAttachment>>
    /\ AllCallsOk
    /\ Len(CatalogCalls(calls)) = 1
    /\ status[event.id] = FINISHED_UPLOADING

\* the data of the last agent-properties attachment of ev
LastProperties(ev) ==
    LET ps == SelectSeq(ev.attach, LAMBDA a : a.name = <<prop>>) IN
    ps[Len(ps)].data

\* the fields the /ingest request of an attempt on ev is to carry, given
\* the current document and the value sent as workflowInstanceId
SubmitFields(ev, current, uid) ==
    << <<"mediaPackage", current>> >>
    \o (IF ExpectedDef(LastProperties(ev)) # <<>>
        THEN << <<"workflowDefinitionId", ExpectedDef(LastProperties(ev))>> >>
        ELSE <<>>)
    \o (IF ev.uid # <<>> THEN << <<"workflowInstanceId", uid>> >> ELSE <<>>)
    \o ExpectedParam(LastProperties(ev))

\* C16: the /ingest request carries mediaPackage = the response of the
\* call before it, workflowDefinitionId exactly when the agent properties
\* gave a non-empty definition id, workflowInstanceId = event.uid exactly
\* when the uid is not empty, then the configuration pairs in extracted
\* order; and its response is the result of the build.
C16_SubmitFields ==
    \A i \in 1..Len(calls) :
        calls[i].op = "ingest" =>
            /\ i = Len(calls) /\ i > 1
            /\ calls[i].fields = SubmitFields(event, calls[i - 1].resp, event.uid)
            /\ pc = "finished" => mediapackage = calls[i].resp

Ended(e) == status[e] \in {FINISHED_UPLOADING, FAILED_UPLOADING}

\* C17: with the automatic upload on and while terminate() stays false,
\* every event in FINISHED_RECORDING is eventually in FINISHED_UPLOADING or
\* FAILED_UPLOADING and stays in one of the two; no event is in UPLOADING
\* once its attempt has returned.
C17_EveryEventUploaded ==
    /\ \A e \in EventIds :
         (status[e] = FINISHED_RECORDING /\ autoingesting_mode)
            ~> (Ended(e) \/ terminated)
    /\ [][\A e \in EventIds : Ended(e) => Ended(e)']_vars
    /\ [](~InAttempt => \A e \in EventIds : status[e] # UPLOADING)

\* every event of the database has had its attempt, the loop still running
C17_Witness ==
    /\ ~terminated
    /\ autoingesting_mode
    /\ pc = "tick"
    /\ \A e \in EventIds : attempts[e] = 1 /\ Ended(e)

\* C18: a remote call that failed is the last call of its attempt: after it
\* the process is in the except clause or back in the loop, and no /ingest
\* request follows a failed call.
C18_NoCallAfterFailure ==
    /\ \A i \in 1..Len(calls) : ~calls[i].ok => i = Len(calls)
    /\ ~AllCallsOk => (pc \in {"except", "close"} /\ raised = "pycurl.error")
    /\ \A i \in 1..Len(calls) :
         calls[i].op = "ingest" => \A j \in 1..(i - 1) : calls[j].ok

\* an attempt whose addDCCatalog call failed has ended although the event
\* has a track and agent properties
C18_Witness ==
    /\ AttemptEnded
    /\ Len(calls) = 2
    /\ calls[2].op = "addDCCatalog" /\ ~calls[2].ok
    /\ event.tracks # <<>>
    /\ HasProperties(event)

\* C19: no event whose /ingest request the server answered is in
\* FAILED_UPLOADING.
C19_FailedMeansNotAccepted ==
    \A e \in EventIds : ~(e \in accepted /\ status[e] = FAILED_UPLOADING)

\* C20: the status text given to the notifier is 'Uploading' only while an
\* upload attempt is in progress; whenever the service is IDLE the last
\* status text is 'Running'.
C20_StatusText ==
    /\ notify_status = "Uploading" => InAttempt
    /\ service_status = IDLE => notify_status = "Running"

====
